---- MODULE Spec2Model ----
(***************************************************************************)
(* gcb2gh: the event aggregation and status synthesis engine of main.go.   *)
(* Two tasks: the event-reading task (dockerUpdates) normalises container  *)
(* events into gcbStep transitions and hands them over the gcbUpdates      *)
(* channel; the coordination task (the loop of run) applies them to the    *)
(* step map, debounces with the kick timer and publishes gcb2gh(steps).    *)
(***************************************************************************)
EXTENDS Integers, Sequences, FiniteSets, TLC

VARIABLES
    ids,          \* readManifestIDs: the manifest's step ids, by step number
    steps,        \* run: steps map[int]gcbStep
    updates,      \* the buffered channel gcbUpdates (its queued values)
    updClosed,    \* close(gcbUpdates) was executed
    updNil,       \* run's variable gcbUpdates was set to nil
    dockerErrs,   \* the channel dockerErrs: "empty", a result, or "drained"
    kick,         \* the timer kick: the interval it is armed at, or "stopped"
    kickC,        \* a tick waits unconsumed in kick.C
    prodPc,       \* where dockerUpdates stands
    prodMsg,      \* the gcbStep dockerUpdates is blocked sending
    nEvents,      \* transitions normalised so far (the stream's clock)
    result,       \* what run returned: "none" while it loops
    ctxDone,      \* run's context was cancelled (deferred cancel)
    gh,           \* the ghStatusUpdate handed to updateGitHub in this step
    ghErr,        \* whether the sink rejected it (updateGitHub's error)
    burst         \* transitions applied since the publish before

vars == <<ids, steps, updates, updClosed, updNil, dockerErrs, kick, kickC,
          prodPc, prodMsg, nEvents, result, ctxDone, gh, ghErr, burst>>

----------------------------------------------------------------------------
(* Bounds of the model. *)

MaxStep == 2       \* step numbers 0..MaxStep-1 appear in container names
MaxEvents == 2     \* transitions the stream gives rise to before it ends
MaxIds == 1        \* steps of the build manifest, when there is one
MaxRun == 2        \* events of a stream that is given as a whole

(* Program constants. *)

ChanCap == 10      \* make(chan gcbStep, 10)

DescriptionLimit == 140    \* if len(status) >= 140 { status = status[:140] }

(* Time is counted in ticks of half a second from the beginning of the     *)
(* event stream, which lies Epoch after the origin of UnixNano (a span     *)
(* that the integers of TLC can hold; the real one is longer). A time of 0 *)
(* is Go's zero value: no time recorded.                                   *)
Second == 2

Minute == 60 * Second

Hour == 60 * Minute

Day == 24 * Hour

Year == 365 * Day

Epoch == 30 * Year + 100 * Day

gcbStatusUndef == 0
gcbStatusError == 1
gcbStatusCancelled == 2
gcbStatusRunning == 3
gcbStatusDone == 4

ghCommitStateError == "error"
ghCommitStateSuccess == "success"
ghCommitStatePending == "pending"

----------------------------------------------------------------------------
(* Strings are sequences of bytes, as in Go. A byte of ASCII is written as  *)
(* its character; the two bytes of the character U+00E9 are written "c3"   *)
(* and "a9".                                                               *)

Digits == <<"0", "1", "2", "3", "4", "5", "6", "7", "8", "9">>

IsDigit(c) == \E i \in 1..10 : Digits[i] = c

DigitVal(c) == CHOOSE i \in 0..9 : Digits[i + 1] = c

RECURSIVE DigitsVal(_)
DigitsVal(s) ==
    IF s = <<>> THEN 0
    ELSE 10 * DigitsVal(SubSeq(s, 1, Len(s) - 1)) + DigitVal(s[Len(s)])

AllDigits(s) == s # <<>> /\ \A i \in 1..Len(s) : IsDigit(s[i])

(* strconv.Atoi with the error dropped: 0 unless s is an optionally signed *)
(* decimal number.                                                         *)
atoi(s) ==
    IF s # <<>> /\ s[1] \in {"+", "-"}
    THEN IF AllDigits(Tail(s))
         THEN (IF s[1] = "-" THEN 0 - DigitsVal(Tail(s)) ELSE DigitsVal(Tail(s)))
         ELSE 0
    ELSE IF AllDigits(s) THEN DigitsVal(s) ELSE 0

HasPrefix(s, p) == Len(s) >= Len(p) /\ SubSeq(s, 1, Len(p)) = p

TrimPrefix(s, p) == IF HasPrefix(s, p) THEN SubSeq(s, Len(p) + 1, Len(s)) ELSE s

StepPrefix == <<"s", "t", "e", "p", "_">>

RECURSIVE NatDigits(_)
NatDigits(n) ==
    IF n < 10 THEN <<Digits[n + 1]>>
    ELSE NatDigits(n \div 10) \o <<Digits[(n % 10) + 1]>>

(* strconv.Itoa, and the verb %d of fmt.Sprintf. *)
Itoa(n) == IF n < 0 THEN <<"-">> \o NatDigits(0 - n) ELSE NatDigits(n)

----------------------------------------------------------------------------
(* The data: gcbStep, dockerEvent, ghStatusUpdate. *)

gcbStep(status, num, id, exit, startNano, endNano) ==
    [status |-> status, num |-> num, id |-> id, exit |-> exit,
     startNano |-> startNano, endNano |-> endNano]

(* The zero gcbStep: what a map read of a missing key and a receive from a *)
(* closed channel give.                                                    *)
ZeroStep == gcbStep(gcbStatusUndef, 0, <<>>, 0, 0, 0)

dockerEvent(name, action, exitCode, timeNano) ==
    [Name |-> name, Action |-> action, ExitCode |-> exitCode, TimeNano |-> timeNano]

StepName(n) == StepPrefix \o Itoa(n)

StepNames == { StepName(n) : n \in 0..(MaxStep - 1) }

OtherName == <<"g", "c", "b", "2", "g", "h">>

ExitCodes == { <<"0">>, <<"1">> }

(* The events a stream can carry at time t: container events of steps and  *)
(* of one container that is no step; die carries an exit code.             *)
EventsAt(names, t) ==
    { dockerEvent(n, a, <<>>, t) : n \in names, a \in {"start", "kill", "create"} }
    \cup { dockerEvent(n, "die", x, t) : n \in names, x \in ExitCodes }

(* The ids of a manifest of n steps, by step number; every second step     *)
(* declares no id.                                                         *)
Manifest(n) ==
    [i \in 1..n |-> IF i % 2 = 1 THEN <<"i", "d">> \o Itoa(i - 1) ELSE <<>>]

(* readManifestIDs, building the map from what was parsed before the       *)
(* parser reported its error.                                              *)
readManifestIDsPartial(mani) ==
    IF mani.file \in {"ok", "garbled"} THEN mani.steps ELSE <<>>

(* readManifestIDs(mani). mani.file tells what is at the path: "none" for  *)
(* the empty path, "missing" for a file that does not open, "garbled" for  *)
(* one that does not parse, "ok" for a manifest whose steps have the ids   *)
(* mani.steps.                                                             *)
readManifestIDs(mani) ==
    IF mani.file = "ok" THEN mani.steps ELSE <<>>

Manifests ==
    { [file |-> f, steps |-> Manifest(MaxIds)] :
        f \in {"none", "missing", "garbled", "ok"} }

(* ids[num] of a Go map: the empty string for a missing key. *)
IdOf(m, num) == IF (num + 1) \in DOMAIN m THEN m[num + 1] ELSE <<>>

(* steps[num] of a Go map: the zero gcbStep for a missing key. *)
StepAt(m, num) == IF num \in DOMAIN m THEN m[num] ELSE ZeroStep

(* steps[num] = s *)
Store(m, num, s) == [n \in (DOMAIN m) \cup {num} |-> IF n = num THEN s ELSE m[n]]

----------------------------------------------------------------------------
(* dockerUpdates: the normalizer. The result is <<emit, step>>. *)

(* Normalize, sending for an action it does not know a transition that    *)
(* has no status.                                                          *)
NormalizeEmitsUnknown(e, manifest) ==
    LET num == atoi(TrimPrefix(e.Name, StepPrefix))
        id == IF IdOf(manifest, num) = <<>> THEN e.Name ELSE IdOf(manifest, num)
        exit == atoi(e.ExitCode)
    IN  IF ~HasPrefix(e.Name, StepPrefix) THEN <<FALSE, ZeroStep>>
        ELSE CASE e.Action = "start" ->
                    <<TRUE, gcbStep(gcbStatusRunning, num, id, 0, e.TimeNano, 0)>>
               [] e.Action = "kill" ->
                    <<TRUE, gcbStep(gcbStatusCancelled, num, id, 0, 0, e.TimeNano)>>
               [] e.Action = "die" ->
                    <<TRUE, gcbStep(IF exit = 0 THEN gcbStatusDone ELSE gcbStatusError,
                                    num, id, exit, 0, e.TimeNano)>>
               [] OTHER -> <<TRUE, gcbStep(gcbStatusUndef, num, id, 0, 0, 0)>>

(* Normalize, taking every die for a clean exit. *)
NormalizeDieIsDone(e, manifest) ==
    LET num == atoi(TrimPrefix(e.Name, StepPrefix))
        id == IF IdOf(manifest, num) = <<>> THEN e.Name ELSE IdOf(manifest, num)
    IN  IF ~HasPrefix(e.Name, StepPrefix) THEN <<FALSE, ZeroStep>>
        ELSE CASE e.Action = "start" ->
                    <<TRUE, gcbStep(gcbStatusRunning, num, id, 0, e.TimeNano, 0)>>
               [] e.Action = "kill" ->
                    <<TRUE, gcbStep(gcbStatusCancelled, num, id, 0, 0, e.TimeNano)>>
               [] e.Action = "die" ->
                    <<TRUE, gcbStep(gcbStatusDone, num, id, atoi(e.ExitCode), 0,
                                    e.TimeNano)>>
               [] OTHER -> <<FALSE, ZeroStep>>

Normalize(e, manifest) ==
    LET num == atoi(TrimPrefix(e.Name, StepPrefix))
        id == IF IdOf(manifest, num) = <<>> THEN e.Name ELSE IdOf(manifest, num)
        exit == atoi(e.ExitCode)
    IN  IF ~HasPrefix(e.Name, StepPrefix) THEN <<FALSE, ZeroStep>>
        ELSE CASE e.Action = "start" ->
                    <<TRUE, gcbStep(gcbStatusRunning, num, id, 0, e.TimeNano, 0)>>
               [] e.Action = "kill" ->
                    <<TRUE, gcbStep(gcbStatusCancelled, num, id, 0, 0, e.TimeNano)>>
               [] e.Action = "die" ->
                    <<TRUE, gcbStep(IF exit = 0 THEN gcbStatusDone ELSE gcbStatusError,
                                    num, id, exit, 0, e.TimeNano)>>
               [] OTHER -> <<FALSE, ZeroStep>>

----------------------------------------------------------------------------
(* run: applying one received transition to the step map. *)

(* Cascade, cancelling every step that is not in Error. *)
CascadeCancelsDone(m, s) ==
    [n \in DOMAIN m |->
        IF m[n].status # gcbStatusError
        THEN [m[n] EXCEPT !.status = gcbStatusCancelled, !.endNano = s.endNano]
        ELSE m[n]]

(* Cascade, forgetting line 131. *)
CascadeKeepsEnd(m, s) ==
    [n \in DOMAIN m |->
        IF m[n].status = gcbStatusRunning
        THEN [m[n] EXCEPT !.status = gcbStatusCancelled]
        ELSE m[n]]

(* Lines 125-134: every Running step becomes Cancelled at s.endNano. *)
Cascade(m, s) ==
    [n \in DOMAIN m |->
        IF m[n].status = gcbStatusRunning
        THEN [m[n] EXCEPT !.status = gcbStatusCancelled, !.endNano = s.endNano]
        ELSE m[n]]

(* Merge, storing the transition as it came. *)
MergeOverwrites(m, s) == s

(* Lines 114-118: keep the recorded start time when s carries none. *)
Merge(m, s) ==
    IF s.startNano = 0 THEN [s EXCEPT !.startNano = StepAt(m, s.num).startNano] ELSE s

(* Ignored, testing for the wrong status. *)
IgnoredOnError(m, s) == StepAt(m, s.num).status = gcbStatusError

(* Line 108: a Cancelled step ignores every later transition. *)
Ignored(m, s) == StepAt(m, s.num).status = gcbStatusCancelled

Apply(m, s) ==
    IF Ignored(m, s) THEN m
    ELSE LET stored == Store(m, s.num, Merge(m, s))
         IN  IF s.status = gcbStatusError THEN Cascade(stored, Merge(m, s)) ELSE stored

----------------------------------------------------------------------------
(* gcb2gh: the synthesizer. *)

(* Less, ordering by step number alone. *)
LessByNumber(a, b) == a.num < b.num

(* The comparator of sort.Slice. *)
Less(a, b) ==
    IF a.status # b.status THEN a.status < b.status
    ELSE IF a.endNano # b.endNano THEN a.endNano >= b.endNano
    ELSE IF a.startNano # b.startNano THEN a.startNano >= b.startNano
    ELSE a.num < b.num

RECURSIVE SortSet(_)
SortSet(S) ==
    IF S = {} THEN <<>>
    ELSE LET first == CHOOSE a \in S : \A b \in S \ {a} : Less(a, b)
         IN  <<first>> \o SortSet(S \ {first})

(* st: the values of the map, sorted. *)
Sorted(m) == SortSet({ m[n] : n \in DOMAIN m })

(* CommitState, reporting success where the switch has no case. *)
CommitStateElseSuccess(s0, observed, numSteps) ==
    CASE s0.status = gcbStatusError -> ghCommitStateError
      [] s0.status = gcbStatusDone ->
            IF numSteps = 0 \/ observed = numSteps
            THEN ghCommitStateSuccess
            ELSE ghCommitStatePending
      [] s0.status = gcbStatusRunning -> ghCommitStatePending
      [] OTHER -> ghCommitStateSuccess

(* CommitState, without the test of the step count. *)
CommitStateDoneIsSuccess(s0, observed, numSteps) ==
    CASE s0.status = gcbStatusError -> ghCommitStateError
      [] s0.status = gcbStatusDone -> ghCommitStateSuccess
      [] s0.status = gcbStatusRunning -> ghCommitStatePending
      [] OTHER -> ""

(* CommitState, taking a known step count for an unfinished build. *)
CommitStateNeedsNoManifest(s0, observed, numSteps) ==
    CASE s0.status = gcbStatusError -> ghCommitStateError
      [] s0.status = gcbStatusDone ->
            IF numSteps = 0 THEN ghCommitStateSuccess ELSE ghCommitStatePending
      [] s0.status = gcbStatusRunning -> ghCommitStatePending
      [] OTHER -> ""

(* Lines 356-376: the switch over s0.status; no case sets a state for a    *)
(* Cancelled (or undefined) first entry, which leaves the zero value "".   *)
CommitState(s0, observed, numSteps) ==
    CASE s0.status = gcbStatusError -> ghCommitStateError
      [] s0.status = gcbStatusDone ->
            IF numSteps = 0 \/ observed = numSteps
            THEN ghCommitStateSuccess
            ELSE ghCommitStatePending
      [] s0.status = gcbStatusRunning -> ghCommitStatePending
      [] OTHER -> ""

(* gcbStatus.String *)
String(status) ==
    <<<<"U", "n", "k", "n", "o", "w", "n">>,
      <<"E", "r", "r", "o", "r">>,
      <<"C", "a", "n", "c", "e", "l", "l", "e", "d">>,
      <<"R", "u", "n", "n", "i", "n", "g">>,
      <<"D", "o", "n", "e">>>>[status + 1]

(* fmtDuration(d), for d > 0. *)
fmtDuration(d) ==
    IF d > Year THEN Itoa(d \div Year) \o <<"y">> \o Itoa((d % Year) \div Day) \o <<"d">>
    ELSE IF d > Day
    THEN Itoa(d \div Day) \o <<"d">> \o Itoa((d % Day) \div Hour) \o <<"h">>
    ELSE IF d > Hour
    THEN Itoa(d \div Hour) \o <<"h">> \o Itoa((d % Hour) \div Minute) \o <<"m">>
    ELSE IF d > Minute
    THEN Itoa(d \div Minute) \o <<"m">> \o Itoa((d % Minute) \div Second) \o <<"s">>
    ELSE Itoa((d % Minute) \div Second) \o <<"s">>

(* Lines 338-342: time.Duration(e - s.startNano), with e the end time or   *)
(* the present one. A start time of 0 leaves the whole of the UnixNano e.  *)
Elapsed(s, nowNano) ==
    LET e == IF s.endNano = 0 THEN nowNano ELSE s.endNano
    IN  IF s.startNano = 0 THEN Epoch + e ELSE e - s.startNano

(* Lines 327-348: the loop over st from its i-th entry on, stPrev being    *)
(* the status of the entry before.                                         *)
RECURSIVE Describe(_, _, _, _)
Describe(st, i, stPrev, nowNano) ==
    IF i > Len(st) THEN <<>>
    ELSE LET s == st[i]
             label == IF s.status # stPrev
                      THEN (IF stPrev # 0 THEN <<";", " ">> ELSE <<>>)
                           \o String(s.status) \o <<":", " ">>
                      ELSE <<",", " ">>
             d == Elapsed(s, nowNano)
             suffix == IF d > 10 * Second THEN <<" ">> \o fmtDuration(d) ELSE <<>>
         IN  label \o s.id \o suffix \o Describe(st, i + 1, s.status, nowNano)

(* Lines 350-354. *)
Trim(status) ==
    IF Len(status) >= DescriptionLimit THEN SubSeq(status, 1, DescriptionLimit)
    ELSE status

ghStatusUpdate(state, targetStep, description) ==
    [State |-> state, TargetStep |-> targetStep, Description |-> description]

(* gcb2gh, linking to the last entry of the sorted steps. *)
gcb2ghLastTarget(m, numSteps, nowNano) ==
    LET st == Sorted(m)
        s0 == st[1]
    IN  ghStatusUpdate(CommitState(s0, Len(st), numSteps), Itoa(st[Len(st)].num),
                       Trim(Describe(st, 1, gcbStatusUndef, nowNano)))

(* gcb2gh(build, steps, numSteps), for a map that is not empty, at the     *)
(* time nowNano. TargetStep is the ";step=" parameter of TargetURL.        *)
gcb2gh(m, numSteps, nowNano) ==
    LET st == Sorted(m)
        s0 == st[1]
    IN  ghStatusUpdate(CommitState(s0, Len(st), numSteps), Itoa(s0.num),
                       Trim(Describe(st, 1, gcbStatusUndef, nowNano)))

(* gh in a step that hands nothing to the sink. *)
NoUpdate == [State |-> "none", TargetStep |-> <<>>, Description |-> <<>>]

----------------------------------------------------------------------------
(* The process. result is "none" while run loops; "nil" and the error      *)
(* names are what run returned; "panic" and "fatal" end the process        *)
(* without a return; "stuck" is the loop blocked for ever on <-kick.C.     *)

Results == {"none", "nil", "pubErr", "decodeErr", "exit3", "ctxErr",
            "panic", "fatal", "stuck"}

(* exitCode(err), and the exit status of a panic (2) and of log.Fatalf (1). *)
exitCode(r) ==
    CASE r = "nil" -> 0
      [] r = "exit3" -> 3
      [] r = "panic" -> 2
      [] OTHER -> 1

numSteps == Len(ids)

Init ==
    /\ ids \in { readManifestIDs(mani) : mani \in Manifests }
    /\ steps = <<>>
    /\ updates = <<>>
    /\ updClosed = FALSE
    /\ updNil = FALSE
    /\ dockerErrs = "empty"
    /\ kick = "hour"
    /\ kickC = FALSE
    /\ prodPc = "connect"
    /\ prodMsg = ZeroStep
    /\ nEvents = 0
    /\ result = "none"
    /\ ctxDone = FALSE
    /\ gh = NoUpdate
    /\ ghErr = FALSE
    /\ burst = 0

Alive == result = "none"

(* What time.Now() may read at a publish: later than the latest event by   *)
(* a tick, or by eleven seconds.                                           *)
NowLags == {1, 11 * Second}

Nows == { nEvents + lag : lag \in NowLags }

(* The transitions applied since the last publish: none right after one. *)
Unpublished == IF gh = NoUpdate THEN burst ELSE 0

(* A step of the process that does not call updateGitHub. *)
NoPublish == gh' = NoUpdate /\ ghErr' = FALSE

Quiet == NoPublish /\ burst' = Unpublished

(* ProducerReturns, handing over the result while dockerUpdates goes on. *)
ProducerReturnsEarly(err) ==
    /\ prodPc' = prodPc
    /\ dockerErrs' = err

(* The goroutine of run: dockerErrs <- dockerUpdates(...), then close. *)
ProducerReturns(err) ==
    /\ prodPc' = "returned"
    /\ dockerErrs' = err

(* dockerUpdates, lines 237-246: the request for the event stream. *)
DockerConnect ==
    /\ Alive
    /\ prodPc = "connect"
    /\ \E outcome \in {"ok", "status", "unreachable"} :
          CASE outcome = "ok" ->
                  /\ prodPc' = "read"
                  /\ UNCHANGED <<dockerErrs, result, ctxDone>>
            [] outcome = "status" ->
                  /\ ProducerReturns("exit3")
                  /\ UNCHANGED <<result, ctxDone>>
            [] OTHER ->
                  \* log.Fatalf ends the process.
                  /\ result' = "fatal"
                  /\ UNCHANGED <<prodPc, dockerErrs, ctxDone>>
    /\ Quiet
    /\ UNCHANGED <<ids, steps, updates, updClosed, updNil, kick, kickC, prodMsg,
                   nEvents>>

(* SendNow, putting the transition before those that wait in the channel. *)
SendNowFirst(s) ==
    /\ updates' = <<s>> \o updates
    /\ IF ctxDone THEN ProducerReturns("ctxErr")
       ELSE prodPc' = "read" /\ UNCHANGED dockerErrs

(* updates <- s with room in the channel, then the check of ctx.Err(). *)
SendNow(s) ==
    /\ updates' = Append(updates, s)
    /\ IF ctxDone THEN ProducerReturns("ctxErr")
       ELSE prodPc' = "read" /\ UNCHANGED dockerErrs

(* dockerUpdates, lines 250-301: one turn of the loop, for an event e out  *)
(* of events, in a stream of at most limit transitions. The send blocks    *)
(* when the channel is full.                                               *)
ReadEvent(events, limit) ==
    /\ prodPc = "read"
    /\ nEvents < limit
    /\ \E e \in events :
          LET n == Normalize(e, ids)
          IN  IF ~n[1]
              THEN UNCHANGED <<updates, prodPc, prodMsg, dockerErrs, nEvents>>
              ELSE /\ nEvents' = nEvents + 1
                   /\ IF Len(updates) < ChanCap
                      THEN SendNow(n[2]) /\ UNCHANGED prodMsg
                      ELSE /\ prodPc' = "send"
                           /\ prodMsg' = n[2]
                           /\ UNCHANGED <<updates, dockerErrs>>
    /\ Quiet
    /\ UNCHANGED <<ids, steps, updClosed, updNil, kick, kickC, result, ctxDone>>

(* The same while run loops. The stream's clock advances with every        *)
(* transition: the event of the (k+1)-th transition carries                *)
(* TimeNano = k + 1.                                                       *)
DockerEvent(names) ==
    /\ Alive
    /\ ReadEvent(EventsAt(names, nEvents + 1), MaxEvents)

(* Line 295: the send that found the channel full goes on when the loop    *)
(* has received a transition.                                              *)
SendBlocked ==
    /\ Alive
    /\ prodPc = "send"
    /\ Len(updates) < ChanCap
    /\ SendNow(prodMsg)
    /\ Quiet
    /\ UNCHANGED <<ids, steps, updClosed, updNil, kick, kickC, prodMsg, nEvents,
                   result, ctxDone>>

(* Lines 253-261: the stream ends (io.EOF) or fails to decode. *)
ReadEnd ==
    /\ prodPc = "read"
    /\ \E err \in {"nil", "decodeErr"} : ProducerReturns(err)
    /\ Quiet
    /\ UNCHANGED <<ids, steps, updates, updClosed, updNil, kick, kickC, prodMsg,
                   nEvents, result, ctxDone>>

(* The same while run loops. *)
DockerEnd == Alive /\ ReadEnd

(* ExitErr, without the exit on the error state (lines 166-169). *)
ExitErrNoErrorExit(state, exhausted, err) ==
    IF exhausted THEN err ELSE "none"

(* ExitErr, without the exit on completion (lines 174-177). *)
ExitErrNoCompletion(state, exhausted, err) ==
    IF state = ghCommitStateError THEN err ELSE "none"

(* ExitErr, returning on completion run's named result (nil) in place of   *)
(* the error of updateGitHub that shadows it.                              *)
ExitErrOuterErr(state, exhausted, err) ==
    IF state = ghCommitStateError THEN err
    ELSE IF exhausted THEN "nil"
    ELSE "none"

(* ExitErr, returning whenever updateGitHub failed. *)
ExitErrOnFailure(state, exhausted, err) ==
    IF state = ghCommitStateError \/ exhausted \/ err # "nil" THEN err ELSE "none"

(* Lines 166-177: what the loop does after a publish of the given state   *)
(* that ended with err: the value it returns, or "none" to go on.          *)
ExitErr(state, exhausted, err) ==
    IF state = ghCommitStateError THEN err
    ELSE IF exhausted THEN err
    ELSE "none"

(* Lines 156-177: gcb2gh, updateGitHub and the exits of the loop.          *)
(* exhausted is gcbUpdates == nil. st[0] of an empty map panics.           *)
Publish(exhausted) ==
    /\ burst' = Unpublished
    /\ IF DOMAIN steps = {}
       THEN /\ result' = "panic"
            /\ NoPublish
            /\ UNCHANGED ctxDone
       ELSE \E rejected \in BOOLEAN, nowNano \in Nows :
               LET upd == gcb2gh(steps, numSteps, nowNano)
                   err == IF rejected THEN "pubErr" ELSE "nil"
               IN  /\ gh' = upd
                   /\ ghErr' = rejected
                   /\ result' = ExitErr(upd.State, exhausted, err)
                   /\ ctxDone' = (ExitErr(upd.State, exhausted, err) # "none")

(* Debounce, draining kick.C whatever kick.Stop reports. *)
DebounceAlwaysDrains(k, c) ==
    IF c THEN <<"short", FALSE, FALSE>> ELSE <<k, c, TRUE>>

(* Debounce, forgetting kick.Reset. *)
DebounceNoReset(k, c) == <<"stopped", FALSE, ~(k # "stopped" \/ c)>>

(* Lines 136-141: kick.Stop(), the drain of kick.C when Stop reports       *)
(* false, and kick.Reset(20ms). The result is <<kick, kickC, blocked>>;    *)
(* the drain blocks for ever when the timer is stopped and no tick waits.  *)
Debounce(k, c) ==
    IF k # "stopped" \/ c THEN <<"short", FALSE, FALSE>> ELSE <<k, c, TRUE>>

(* Lines 102-142: a transition is received. *)
RecvUpdate ==
    /\ Alive
    /\ ~updNil
    /\ updates # <<>>
    /\ Head(updates).status # gcbStatusUndef
    /\ LET s == Head(updates)
           d == Debounce(kick, kickC)
       IN  /\ updates' = Tail(updates)
           /\ steps' = Apply(steps, s)
           /\ IF Ignored(steps, s)
              THEN /\ burst' = Unpublished
                   /\ UNCHANGED <<kick, kickC, result>>
              ELSE /\ burst' = Unpublished + 1
                   /\ kick' = d[1]
                   /\ kickC' = d[2]
                   /\ result' = IF d[3] THEN "stuck" ELSE result
    /\ NoPublish
    /\ UNCHANGED <<ids, updClosed, updNil, dockerErrs, prodPc, prodMsg, nEvents,
                   ctxDone>>

(* The receive gives a gcbStep with no status: the zero gcbStep of the     *)
(* closed and drained channel, or a transition that was sent without one.  *)
SentinelAtHead ==
    IF updates = <<>> THEN updClosed ELSE Head(updates).status = gcbStatusUndef

(* Lines 102-107: a received gcbStep with no status ends the stream. *)
RecvClosed ==
    /\ Alive
    /\ ~updNil
    /\ SentinelAtHead
    /\ updates' = IF updates = <<>> THEN updates ELSE Tail(updates)
    /\ updNil' = TRUE
    /\ Publish(TRUE)
    /\ UNCHANGED <<ids, steps, updClosed, dockerErrs, kick, kickC, prodPc,
                   prodMsg, nEvents>>

(* RecvDockerErr, taking every result of dockerUpdates for nil. *)
RecvDockerErrAsNil ==
    /\ Alive
    /\ dockerErrs \notin {"empty", "drained"}
    /\ dockerErrs' = "drained"
    /\ updClosed' = TRUE
    /\ Quiet
    /\ UNCHANGED <<ids, steps, updates, updNil, kick, kickC, prodPc, prodMsg,
                   nEvents, result, ctxDone>>

(* Lines 144-150: the result of dockerUpdates is received. *)
RecvDockerErr ==
    /\ Alive
    /\ dockerErrs \notin {"empty", "drained"}
    /\ IF dockerErrs = "nil"
       THEN /\ dockerErrs' = "drained"
            /\ updClosed' = TRUE
            /\ UNCHANGED <<result, ctxDone>>
       ELSE /\ result' = dockerErrs
            /\ ctxDone' = TRUE
            /\ UNCHANGED <<dockerErrs, updClosed>>
    /\ Quiet
    /\ UNCHANGED <<ids, steps, updates, updNil, kick, kickC, prodPc, prodMsg,
                   nEvents>>

(* The timer kick expires: a tick is put in kick.C. *)
KickFire ==
    /\ Alive
    /\ kick # "stopped"
    /\ kick' = "stopped"
    /\ kickC' = TRUE
    /\ Quiet
    /\ UNCHANGED <<ids, steps, updates, updClosed, updNil, dockerErrs, prodPc,
                   prodMsg, nEvents, result, ctxDone>>

(* RecvKick, forgetting kick.Reset. *)
RecvKickNoRearm ==
    /\ Alive
    /\ kickC
    /\ kickC' = FALSE
    /\ kick' = kick
    /\ Publish(updNil)
    /\ UNCHANGED <<ids, steps, updates, updClosed, updNil, dockerErrs, prodPc,
                   prodMsg, nEvents>>

(* Lines 152-154: the tick is received and the timer armed at 10 seconds. *)
RecvKick ==
    /\ Alive
    /\ kickC
    /\ kickC' = FALSE
    /\ kick' = "steady"
    /\ Publish(updNil)
    /\ UNCHANGED <<ids, steps, updates, updClosed, updNil, dockerErrs, prodPc,
                   prodMsg, nEvents>>

Next ==
    \/ DockerConnect
    \/ DockerEvent(StepNames \cup {OtherName})
    \/ DockerEnd
    \/ RecvUpdate
    \/ RecvClosed
    \/ RecvDockerErr
    \/ KickFire
    \/ RecvKick

Spec == Init /\ [][Next]_vars

----------------------------------------------------------------------------
(* The process from the state in which a whole stream of events was sent   *)
(* and received before the timer fired: the map is what the events made    *)
(* it, the timer is armed at the short interval, and the publish follows.  *)

(* The events of the alphabet that give a transition. *)
Emitting(names, t) == { e \in EventsAt(names, t) : Normalize(e, <<>>)[1] }

(* The streams of at most len events that follow an event at time t, each  *)
(* event later than the one before by a gap of gaps.                       *)
RECURSIVE Runs(_, _, _, _)
Runs(names, gaps, t, len) ==
    IF len = 0 THEN {<<>>}
    ELSE {<<>>} \cup
         UNION { { <<e>> \o r : r \in Runs(names, gaps, e.TimeNano, len - 1) } :
                 e \in UNION { Emitting(names, t + g) : g \in gaps } }

(* The streams of 1 to len events that begin at time 1. *)
RunsOf(names, gaps, len) ==
    UNION { { <<e>> \o r : r \in Runs(names, gaps, 1, len - 1) } :
            e \in Emitting(names, 1) }

(* The step map after the loop of run received the transitions of a stream. *)
RECURSIVE ApplyAll(_, _)
ApplyAll(run, manifest) ==
    IF run = <<>> THEN <<>>
    ELSE Apply(ApplyAll(SubSeq(run, 1, Len(run) - 1), manifest),
               Normalize(run[Len(run)], manifest)[2])

(* The number of them it applied. *)
RECURSIVE CountApplied(_, _)
CountApplied(run, manifest) ==
    IF run = <<>> THEN 0
    ELSE LET before == SubSeq(run, 1, Len(run) - 1)
         IN  CountApplied(before, manifest)
             + (IF Ignored(ApplyAll(before, manifest),
                           Normalize(run[Len(run)], manifest)[2])
                THEN 0 ELSE 1)

InitAfter(runs, manis) ==
    \E run \in runs, mani \in manis :
        /\ ids = readManifestIDs(mani)
        /\ steps = ApplyAll(run, readManifestIDs(mani))
        /\ updates = <<>>
        /\ updClosed = FALSE
        /\ updNil = FALSE
        /\ dockerErrs = "empty"
        /\ kick = "short"
        /\ kickC = FALSE
        /\ prodPc = "read"
        /\ prodMsg = ZeroStep
        /\ nEvents = run[Len(run)].TimeNano
        /\ result = "none"
        /\ ctxDone = FALSE
        /\ gh = NoUpdate
        /\ ghErr = FALSE
        /\ burst = CountApplied(run, readManifestIDs(mani))

NextAfter ==
    \/ KickFire
    \/ RecvKick

(* Streams of three steps whose events may bear the same time. *)
SynthNames == { StepName(0), StepName(1), StepName(2) }

SynthGaps == {0, 1}

InitSynth ==
    InitAfter(RunsOf(SynthNames, SynthGaps, MaxRun), { [file |-> "none", steps |-> <<>>] })

SpecSynth == InitSynth /\ [][NextAfter]_vars

(* The same with the source open and silent for ever: an armed timer      *)
(* expires, and the select of the loop, whose only ready case is then      *)
(* kick.C, receives the tick.                                              *)
SpecSteady ==
    InitSynth /\ [][NextAfter]_vars /\ WF_vars(KickFire) /\ WF_vars(RecvKick)

(* Streams of one step whose events lie the spans of Durations apart:      *)
(* the bounds of the duration suffix and of each unit of fmtDuration.      *)
Durations ==
    { 10 * Second, 10 * Second + 1, 11 * Second, Minute - 1, Minute, Minute + 1,
      Hour, Hour + 1, Day, Day + 1, Year, Year + Day + 1 }

InitDuration ==
    InitAfter(RunsOf({StepName(0)}, Durations, MaxRun),
              { [file |-> "none", steps |-> <<>>] })

SpecDuration == InitDuration /\ [][NextAfter]_vars

(* Streams of two steps under a manifest of long ids: of 64 and 65 bytes   *)
(* of ASCII, or of 60 characters of two bytes each.                        *)
AsciiId(n) == [i \in 1..n |-> "a"]

WideId(n) == [i \in 1..(2 * n) |-> IF i % 2 = 1 THEN "c3" ELSE "a9"]

LongManifests ==
    { [file |-> "ok", steps |-> <<AsciiId(64), AsciiId(65)>>],
      [file |-> "ok", steps |-> <<WideId(60), WideId(60)>>] }

InitTrim ==
    InitAfter(RunsOf({StepName(0), StepName(1)}, {1}, MaxRun), LongManifests)

SpecTrim == InitTrim /\ [][NextAfter]_vars

(* The same process on a stream whose containers are named step_0,         *)
(* step_10, step_x (the prefix of a step, and no number after it) and      *)
(* gcb2gh.                                                                 *)
NormalizerNames ==
    { StepName(0), StepPrefix \o <<"1", "0">>, StepPrefix \o <<"x">>, OtherName }

NextNormalizer ==
    \/ DockerConnect
    \/ DockerEvent(NormalizerNames)
    \/ DockerEnd
    \/ RecvUpdate
    \/ RecvClosed
    \/ RecvDockerErr
    \/ KickFire
    \/ RecvKick

SpecNormalizer == Init /\ [][NextNormalizer]_vars

(* The same process on a stream of starts of step_0 long enough to fill    *)
(* the channel of ChanCap transitions while the loop receives none.        *)
ChannelEvents == ChanCap + 2

StartsAt(t) == { e \in EventsAt({StepName(0)}, t) : e.Action = "start" }

NextChannel ==
    \/ DockerConnect
    \/ (Alive /\ ReadEvent(StartsAt(nEvents + 1), ChannelEvents))
    \/ SendBlocked
    \/ DockerEnd
    \/ RecvUpdate
    \/ RecvClosed
    \/ RecvDockerErr
    \/ KickFire
    \/ RecvKick

SpecChannel == Init /\ [][NextChannel]_vars

(* The same process with the goroutine of dockerUpdates going on after run *)
(* returned and cancelled ctx (line 88), as it does until the process      *)
(* exits. An event arrives when docker sends one, if ever; the steps of    *)
(* the program are taken when they can be.                                 *)
CtxCancelled == ~Alive /\ ctxDone

LateEvent == CtxCancelled /\ ReadEvent(EventsAt({StepName(0)}, nEvents + 1), MaxEvents)

LateEnd == CtxCancelled /\ ReadEnd

NextCancel ==
    \/ DockerConnect
    \/ DockerEvent({StepName(0)})
    \/ DockerEnd
    \/ RecvUpdate
    \/ RecvClosed
    \/ RecvDockerErr
    \/ KickFire
    \/ RecvKick
    \/ LateEvent
    \/ LateEnd

SpecCancel ==
    /\ Init
    /\ [][NextCancel]_vars
    /\ WF_vars(RecvUpdate)
    /\ WF_vars(RecvClosed)
    /\ WF_vars(RecvDockerErr)
    /\ WF_vars(KickFire)
    /\ WF_vars(RecvKick)

----------------------------------------------------------------------------
(* What the claims speak of. *)

(* The step is the receipt of the transition at the head of the channel. *)
Received == updates # <<>> /\ updates' = Tail(updates)

(* ... and the transition is applied, not ignored. *)
Applied == Received /\ ~Ignored(steps, Head(updates))

(* The step consumes the timer's tick in the select of the loop. *)
TickReceived == kickC /\ ~kickC' /\ updates' = updates

Published == gh # NoUpdate

Entries == { steps[n] : n \in DOMAIN steps }

(* a comes before b in the order of the synthesizer: status precedence     *)
(* Error, Cancelled, Running, Done; then the later end; then the later     *)
(* start; then the smaller step number.                                    *)
Precedes(a, b) ==
    \/ a.status < b.status
    \/ a.status = b.status /\ a.endNano > b.endNano
    \/ a.status = b.status /\ a.endNano = b.endNano /\ a.startNano > b.startNano
    \/ a.status = b.status /\ a.endNano = b.endNano /\ a.startNano = b.startNano
       /\ a.num < b.num

FirstEntry == CHOOSE a \in Entries : \A b \in Entries \ {a} : Precedes(a, b)

AllDone == \A n \in DOMAIN steps : steps[n].status = gcbStatusDone

Observed == Cardinality(DOMAIN steps)

----------------------------------------------------------------------------
(* C1. Sticky cancellation: a step that is Cancelled keeps its status and  *)
(* its end time in every later step of the process, whatever transition    *)
(* for it is received.                                                     *)
C1_StickyCancellation ==
    [][\A n \in DOMAIN steps :
          steps[n].status = gcbStatusCancelled =>
              /\ n \in DOMAIN steps'
              /\ steps'[n].status = gcbStatusCancelled
              /\ steps'[n].endNano = steps[n].endNano]_vars

(* Two transitions were received, both for the one step of the map: its    *)
(* kill at time 1, and a later one that left it Cancelled as of time 1.    *)
C1_Witness ==
    /\ nEvents = 2
    /\ updates = <<>>
    /\ \E n \in DOMAIN steps :
          /\ DOMAIN steps = {n}
          /\ steps[n].status = gcbStatusCancelled
          /\ steps[n].endNano = 1

(* C2. Cascade on failure: when a transition with status Error is applied, *)
(* every other step that was Running is Cancelled in the resulting map,    *)
(* with the end time of that transition, and no step is Running there.     *)
C2_CascadeOnFailure ==
    [][(Applied /\ Head(updates).status = gcbStatusError) =>
          LET s == Head(updates)
          IN  /\ \A n \in DOMAIN steps \ {s.num} :
                    steps[n].status = gcbStatusRunning =>
                        /\ steps'[n].status = gcbStatusCancelled
                        /\ steps'[n].endNano = s.endNano
              /\ \A n \in DOMAIN steps' : steps'[n].status # gcbStatusRunning]_vars

(* A started step is Cancelled as of the end time of a step in Error. *)
C2_Witness ==
    \E a, b \in DOMAIN steps :
        /\ a # b
        /\ steps[a].status = gcbStatusError
        /\ steps[b].status = gcbStatusCancelled
        /\ steps[b].startNano > 0
        /\ steps[b].endNano = steps[a].endNano

(* C3. Every status update handed to the sink has state pending, success   *)
(* or error.                                                               *)
C3_CoarseStateDefined ==
    Published =>
        gh.State \in {ghCommitStatePending, ghCommitStateSuccess, ghCommitStateError}

(* C4. The state of a published update follows from the first entry of the *)
(* sorted steps: Error gives error, Running gives pending, Done gives      *)
(* success when the expected step count is 0 or the number of observed     *)
(* steps, and pending otherwise.                                           *)
C4_CoarseStateFromFirst ==
    Published =>
        /\ FirstEntry.status = gcbStatusError => gh.State = ghCommitStateError
        /\ FirstEntry.status = gcbStatusRunning => gh.State = ghCommitStatePending
        /\ FirstEntry.status = gcbStatusDone =>
              gh.State = IF numSteps = 0 \/ Observed = numSteps
                         THEN ghCommitStateSuccess
                         ELSE ghCommitStatePending

(* Every observed step is Done and the update is pending all the same. *)
C4_Witness == Published /\ AllDone /\ gh.State = ghCommitStatePending

(* C5, as claimed. Completion detection: with the expected step count      *)
(* known and equal to the number of observed steps that are Done, the      *)
(* published state is success; with it unknown and the first sorted step   *)
(* Done, the published state is success.                                   *)
C5_AsClaimed ==
    Published =>
        /\ (numSteps > 0
            /\ Cardinality({ n \in DOMAIN steps : steps[n].status = gcbStatusDone })
               = numSteps)
           => gh.State = ghCommitStateSuccess
        /\ (numSteps = 0 /\ FirstEntry.status = gcbStatusDone)
           => gh.State = ghCommitStateSuccess

(* C5, amended. With the expected step count known and equal to the number *)
(* of observed steps, all of them Done, the published state is success;    *)
(* with it unknown and the first sorted step Done, it is success too.      *)
C5_CompletionDetection ==
    Published =>
        /\ (numSteps > 0 /\ Observed = numSteps /\ AllDone)
           => gh.State = ghCommitStateSuccess
        /\ (numSteps = 0 /\ FirstEntry.status = gcbStatusDone)
           => gh.State = ghCommitStateSuccess

(* Success is published with a manifest: as many steps observed as it      *)
(* declares, all Done.                                                     *)
C5_Witness ==
    Published /\ numSteps > 0 /\ Observed = numSteps /\ AllDone
    /\ gh.State = ghCommitStateSuccess

(* C6. Debounce coalescing: the receipt of a transition publishes nothing, *)
(* and when the transition is applied it leaves the timer armed at the     *)
(* short interval with no tick waiting; as long as applied transitions are *)
(* unpublished the short timer is armed or its tick waits; and the receipt *)
(* of the tick publishes once, the synthesis of the map as it then stands, *)
(* and arms the timer at the steady interval.                              *)
C6_DebounceCoalescing ==
    /\ [][Received => (~Published' /\ (Applied => kick' = "short" /\ ~kickC'))]_vars
    /\ []((Alive /\ Unpublished > 0) => (kick = "short" \/ kickC))
    /\ [][(TickReceived /\ Unpublished > 0) =>
             /\ steps' = steps
             /\ \E nowNano \in Nows : gh' = gcb2gh(steps, numSteps, nowNano)
             /\ kick' = "steady"]_vars

(* One publish, made on the timer, of two transitions applied since the    *)
(* publish before (or the start).                                          *)
C6_Witness == Published /\ burst >= 2 /\ kick = "steady" /\ ~updNil

(* C7. An error state is final: when an update with state error has been   *)
(* handed to the sink, run has returned and the process takes no further   *)
(* step, hence makes no further publish.                                   *)
C7_ErrorStateFinal ==
    (Published /\ gh.State = ghCommitStateError) =>
        (result \in {"nil", "pubErr"} /\ ~ENABLED Next)

(* An update with state error was published while the source was open. *)
C7_Witness == Published /\ gh.State = ghCommitStateError /\ ~updNil

(* C8, as claimed (its safety part). Once the loop has seen the end of the *)
(* stream, every transition was received, a publish of the synthesis of    *)
(* the resulting map was made, and run returned after that publish.        *)
C8_AsClaimed ==
    updNil =>
        /\ updates = <<>>
        /\ DOMAIN steps # {}
        /\ Published
        /\ \E nowNano \in Nows : gh = gcb2gh(steps, numSteps, nowNano)
        /\ result \in {"nil", "pubErr"}

(* C9, as claimed. When the source is exhausted and the state of the final *)
(* publish is not error, run returns no error.                             *)
C9_AsClaimed ==
    (updNil /\ Published /\ gh.State # ghCommitStateError) => result = "nil"

(* C9, amended. When the source is exhausted and the state of the final    *)
(* publish is not error, run returns: no error when the sink accepted that *)
(* publish, and the error of the publish when the sink rejected it.        *)
C9_ExhaustedResult ==
    (updNil /\ Published /\ gh.State # ghCommitStateError) =>
        result = IF ghErr THEN "pubErr" ELSE "nil"

(* The final publish, pending and accepted: run returned nil. *)
C9_Witness ==
    updNil /\ Published /\ gh.State = ghCommitStatePending /\ ~ghErr /\ result = "nil"

(* C10. When the sink rejects the publish after which the loop ends, run   *)
(* returns an error and the process exits with a nonzero code, whatever    *)
(* the state of that publish.                                              *)
C10_RejectedFinalPublish ==
    (~Alive /\ Published /\ ghErr) => (result = "pubErr" /\ exitCode(result) # 0)

(* The final publish was pending and rejected. *)
C10_Witness ==
    ~Alive /\ Published /\ ghErr /\ gh.State = ghCommitStatePending
    /\ result = "pubErr"

(* C11. While the source is not exhausted, a publish that the sink rejects *)
(* and whose state is not error leaves run looping and the step map as it  *)
(* was, with the timer armed at the steady interval; and while run loops   *)
(* on a map that is not empty, every receipt of the timer's tick and the   *)
(* receipt of the end of the stream publish.                               *)
C11_FailedPublishGoesOn ==
    /\ [][(Published' /\ ghErr' /\ ~updNil' /\ gh'.State # ghCommitStateError) =>
             (result' = "none" /\ steps' = steps /\ kick' = "steady" /\ ~kickC')]_vars
    /\ [][(result = "none" /\ DOMAIN steps # {}
           /\ (TickReceived \/ (~updNil /\ updNil'))) => Published']_vars

(* A pending update was rejected by the sink and run goes on. *)
C11_Witness ==
    Published /\ ghErr /\ ~updNil /\ gh.State = ghCommitStatePending
    /\ result = "none" /\ kick = "steady"

(* The errors dockerUpdates returns. *)
ProducerErrs == {"decodeErr", "exit3", "ctxErr"}

(* The step takes the result of dockerUpdates from dockerErrs: the only    *)
(* step there is that leaves the channel of transitions and the timer      *)
(* alone while a result waits.                                             *)
ErrReceived ==
    /\ dockerErrs \notin {"empty", "drained"}
    /\ UNCHANGED <<updates, kick, kickC>>

(* C12. When dockerUpdates returned an error, the step in which the loop   *)
(* receives it makes run return exactly that error without a publish, and  *)
(* the process takes no step after it, hence makes no publish attempt.     *)
C12_ProducerErrorPropagates ==
    /\ [][(ErrReceived /\ dockerErrs \in ProducerErrs) =>
             (result' = dockerErrs /\ ~Published')]_vars
    /\ [][result \notin ProducerErrs]_vars

(* run returned the error of a stream that failed to decode, after a       *)
(* transition was applied that was never published.                        *)
C12_Witness == result = "decodeErr" /\ dockerErrs = "decodeErr" /\ burst > 0

(* A name of the form step_<integer>: the prefix, then an optionally       *)
(* signed decimal number.                                                  *)
IsStepName(name) ==
    /\ HasPrefix(name, StepPrefix)
    /\ LET rest == SubSeq(name, Len(StepPrefix) + 1, Len(name))
       IN  \/ AllDigits(rest)
           \/ rest # <<>> /\ rest[1] \in {"+", "-"} /\ AllDigits(Tail(rest))

(* C13, as claimed. No event whose name is not of the form step_<integer>  *)
(* gives rise to a transition or to an entry of the step map: a transition *)
(* or entry that no manifest id names bears the name of its container,     *)
(* and that name is of the form step_<integer>.                            *)
C13_AsClaimed ==
    /\ \A i \in 1..Len(updates) :
          IdOf(ids, updates[i].num) = <<>> => IsStepName(updates[i].id)
    /\ \A n \in DOMAIN steps :
          IdOf(ids, n) = <<>> => IsStepName(steps[n].id)

(* What the claim leaves of C13: an event whose name does not begin with   *)
(* step_ gives no transition.                                              *)
C13_PrefixFilter ==
    \A e \in EventsAt(NormalizerNames, nEvents + 1) :
        ~HasPrefix(e.Name, StepPrefix) => ~Normalize(e, ids)[1]

(* The number after the prefix of a name of the form step_<digits>. *)
NameNumber(name) == DigitsVal(SubSeq(name, Len(StepPrefix) + 1, Len(name)))

(* C14. The normalizer gives, for every event of a container named         *)
(* step_<integer>: on start a transition Running with start time the       *)
(* event's time; on kill one Cancelled with end time the event's time; on  *)
(* die one with end time the event's time and the exit code of the event,  *)
(* Done when that is 0 and Error when not; on any other action none. And   *)
(* every transition in the channel has one of these three shapes.          *)
C14_NormalizerMapping ==
    /\ \A e \in EventsAt(NormalizerNames, nEvents + 1) :
          IsStepName(e.Name) =>
              LET n == Normalize(e, ids)
                  s == n[2]
              IN  CASE e.Action = "start" ->
                          /\ n[1]
                          /\ s.status = gcbStatusRunning
                          /\ s.startNano = e.TimeNano
                          /\ s.num = NameNumber(e.Name)
                    [] e.Action = "kill" ->
                          /\ n[1]
                          /\ s.status = gcbStatusCancelled
                          /\ s.endNano = e.TimeNano
                          /\ s.num = NameNumber(e.Name)
                    [] e.Action = "die" ->
                          /\ n[1]
                          /\ s.endNano = e.TimeNano
                          /\ s.exit = DigitsVal(e.ExitCode)
                          /\ s.status = IF e.ExitCode = <<"0">> THEN gcbStatusDone
                                        ELSE gcbStatusError
                          /\ s.num = NameNumber(e.Name)
                    [] OTHER -> ~n[1]
    /\ \A i \in 1..Len(updates) :
          LET s == updates[i]
          IN  \/ s.status = gcbStatusRunning /\ s.startNano > 0 /\ s.endNano = 0
              \/ s.status = gcbStatusCancelled /\ s.startNano = 0 /\ s.endNano > 0
              \/ s.status = gcbStatusDone /\ s.exit = 0 /\ s.endNano > 0
              \/ s.status = gcbStatusError /\ s.exit # 0 /\ s.endNano > 0

(* The channel holds the transition of step_10 dying with exit code 1. *)
C14_Witness ==
    \E i \in 1..Len(updates) :
        /\ updates[i].status = gcbStatusError
        /\ updates[i].num = 10
        /\ updates[i].exit = 1
        /\ updates[i].endNano = nEvents

(* C19. A manifest that is not configured, does not open or does not      *)
(* parse gives the empty mapping; and a run whose mapping is empty goes    *)
(* on with the expected step count 0, ends fatally only where the request  *)
(* for the event stream fails, and gives every transition and every entry  *)
(* of the step map the name of its container for id.                       *)
C19_ManifestFailure ==
    /\ \A mani \in Manifests : mani.file # "ok" => readManifestIDs(mani) = <<>>
    /\ ids = <<>> =>
          /\ numSteps = 0
          /\ result # "fatal" \/ prodPc = "connect"
          /\ \A i \in 1..Len(updates) : updates[i].id = StepName(updates[i].num)
          /\ \A n \in DOMAIN steps : steps[n].id = StepName(n)

(* Without ids, the one step observed is published as a success under the  *)
(* name of its container.                                                  *)
C19_Witness ==
    /\ ids = <<>>
    /\ Published
    /\ gh.State = ghCommitStateSuccess
    /\ \E n \in DOMAIN steps : DOMAIN steps = {n} /\ steps[n].id = StepName(n)

(* C20. Start time preservation: applying a transition that carries no     *)
(* start time leaves the start time recorded for its step (zero when none  *)
(* was) as it is; and the start time of a step changes only in a step      *)
(* that applies a transition for it carrying a start time.                 *)
C20_StartTimePreserved ==
    /\ [][(Applied /\ Head(updates).startNano = 0) =>
             steps'[Head(updates).num].startNano
                 = StepAt(steps, Head(updates).num).startNano]_vars
    /\ [][\A n \in DOMAIN steps' :
             steps'[n].startNano # StepAt(steps, n).startNano =>
                 /\ Applied
                 /\ Head(updates).num = n
                 /\ Head(updates).startNano # 0]_vars

(* A step started at time 1 and ended at time 2 with its start time kept. *)
C20_Witness ==
    \E n \in DOMAIN steps :
        /\ steps[n].status \in {gcbStatusDone, gcbStatusError, gcbStatusCancelled}
        /\ steps[n].startNano = 1
        /\ steps[n].endNano = 2

(* C16. The step parameter of the link of a published update is the       *)
(* number of the first entry of the sorted steps, the entry the state is   *)
(* derived from; so when a step is in Error, the link names a step in      *)
(* Error and the state is error.                                           *)
C16_DeepLinkTarget ==
    Published =>
        /\ atoi(gh.TargetStep) = FirstEntry.num
        /\ (\E n \in DOMAIN steps : steps[n].status = gcbStatusError) =>
              /\ StepAt(steps, atoi(gh.TargetStep)).status = gcbStatusError
              /\ gh.State = ghCommitStateError

(* The link names step 1, in Error, and not step 0, which is not. *)
C16_Witness ==
    /\ Published
    /\ DOMAIN steps = {0, 1}
    /\ steps[1].status = gcbStatusError
    /\ steps[0].status # gcbStatusError
    /\ gh.TargetStep = <<"1">>

(* The places of text at which pat begins. *)
Occurrences(text, pat) ==
    { i \in 1..(Len(text) - Len(pat) + 1) : SubSeq(text, i, i + Len(pat) - 1) = pat }

(* The label of a group of the description. *)
Label(status) == String(status) \o <<":", " ">>

(* The orders in which the values of the step map can be listed. *)
Listings ==
    LET n == Cardinality(Entries)
    IN  { p \in [1..n -> Entries] : \A i, j \in 1..n : i # j => p[i] # p[j] }

(* What a sort by the comparator may return: no entry is less than one     *)
(* listed before it.                                                       *)
InOrder(p) == \A i, j \in 1..Len(p) : i < j => ~Less(p[j], p[i])

UnixNano(t) == IF t = 0 THEN 0 ELSE Epoch + t

(* The elapsed time of a step as the description is to show it: its end    *)
(* time, or the present time when it has none, less its start time.        *)
ElapsedTime(s, nowNano) ==
    UnixNano(IF s.endNano = 0 THEN nowNano ELSE s.endNano) - UnixNano(s.startNano)

(* What follows the id in the description, up to the next item. *)
SuffixOf(text, id) ==
    LET from == (CHOOSE i \in Occurrences(text, id) : TRUE) + Len(id)
        stops == { i \in from..Len(text) : text[i] \in {",", ";"} }
        to == IF stops = {} THEN Len(text)
              ELSE (CHOOSE i \in stops : \A j \in stops : i <= j) - 1
    IN  SubSeq(text, from, to)

UnitTicks(c) ==
    CASE c = "y" -> Year
      [] c = "d" -> Day
      [] c = "h" -> Hour
      [] c = "m" -> Minute
      [] c = "s" -> Second

(* The time a text of numbers and units denotes, read from the left; acc   *)
(* is the number read so far.                                              *)
RECURSIVE Denotes(_, _)
Denotes(text, acc) ==
    IF text = <<>> THEN 0
    ELSE IF IsDigit(Head(text))
    THEN Denotes(Tail(text), 10 * acc + DigitVal(Head(text)))
    ELSE acc * UnitTicks(Head(text)) + Denotes(Tail(text), 0)

UnitsOf(text) == SelectSeq(text, LAMBDA c : ~IsDigit(c))

(* The suffix of a step whose elapsed time is d is as C18 has it. *)
SuffixAsClaimed(suffix, d) ==
    IF d <= 10 * Second THEN suffix = <<>>
    ELSE /\ suffix # <<>>
         /\ suffix[1] = " "
         /\ LET body == Tail(suffix)
                units == UnitsOf(body)
            IN  /\ Len(units) \in {1, 2}
                /\ \A i \in 1..Len(units) : units[i] \in {"y", "d", "h", "m", "s"}
                /\ Denotes(body, 0) <= d
                /\ d - Denotes(body, 0) < UnitTicks(units[Len(units)])
                /\ d = 11 * Second => body = <<"1", "1", "s">>

(* C18, as claimed. In a published description a step has a duration      *)
(* suffix exactly when its elapsed time is more than 10 seconds; the       *)
(* suffix has one or two units of y, d, h, m, s, denotes a time that is at *)
(* most the elapsed time and short of it by less than one of its last      *)
(* unit, and is "11s" at 11 seconds.                                       *)
C18_AsClaimed ==
    Published =>
        \E nowNano \in Nows :
            \A n \in DOMAIN steps :
                SuffixAsClaimed(SuffixOf(gh.Description, steps[n].id),
                                ElapsedTime(steps[n], nowNano))

(* What holds of C18: the same, of every step whose elapsed time is not    *)
(* one minute to the tick.                                                 *)
C18_ExceptOneMinute ==
    Published =>
        \E nowNano \in Nows :
            \A n \in DOMAIN steps :
                ElapsedTime(steps[n], nowNano) # Minute =>
                    SuffixAsClaimed(SuffixOf(gh.Description, steps[n].id),
                                    ElapsedTime(steps[n], nowNano))

(* A byte that continues a character of more than one byte. *)
IsContinuation(b) == b = "a9"

(* The number of characters of a string. *)
CharLen(text) == Cardinality({ i \in 1..Len(text) : ~IsContinuation(text[i]) })

(* The first k characters of a string that has more. *)
FirstChars(text, k) ==
    LET next == CHOOSE i \in 1..Len(text) :
                    ~IsContinuation(text[i]) /\ CharLen(SubSeq(text, 1, i)) = k + 1
    IN  SubSeq(text, 1, next - 1)

(* C17, as claimed. A published description has at most 140 characters:   *)
(* it is the first 140 characters of the synthesized description when      *)
(* that has more, and the synthesized description itself when not.         *)
C17_AsClaimed ==
    Published =>
        \E nowNano \in Nows :
            LET status == Describe(Sorted(steps), 1, gcbStatusUndef, nowNano)
            IN  /\ CharLen(gh.Description) <= DescriptionLimit
                /\ gh.Description = IF CharLen(status) > DescriptionLimit
                                    THEN FirstChars(status, DescriptionLimit)
                                    ELSE status

(* What holds of C17: the same of bytes. A published description has at    *)
(* most 140 bytes: the first 140 bytes of the synthesized description when *)
(* that has more, and the synthesized description itself when not.         *)
C17_InBytes ==
    Published =>
        \E nowNano \in Nows :
            LET status == Describe(Sorted(steps), 1, gcbStatusUndef, nowNano)
            IN  /\ Len(gh.Description) <= DescriptionLimit
                /\ gh.Description = IF Len(status) > DescriptionLimit
                                    THEN SubSeq(status, 1, DescriptionLimit)
                                    ELSE status

(* C17 of the descriptions that are all ASCII. *)
C17_OfAscii ==
    (\A i \in 1..Len(ids) : \A j \in 1..Len(ids[i]) : ids[i][j] = "a") => C17_AsClaimed

(* C30. A publish that reports success finds every step of the map Done    *)
(* and, when the expected step count is not 0, as many steps observed as   *)
(* expected.                                                               *)
C30_SuccessMeansAllDone ==
    (Published /\ gh.State = ghCommitStateSuccess) =>
        /\ AllDone
        /\ numSteps # 0 => Observed = numSteps

(* Success is published while the stream is open, for the one step the     *)
(* manifest declares.                                                      *)
C30_Witness ==
    /\ Published
    /\ gh.State = ghCommitStateSuccess
    /\ ~updNil
    /\ numSteps = 1
    /\ Observed = 1

(* C24. Every entry of the step map and every transition in the channel    *)
(* has status Running, Done, Error or Cancelled; so the loop has taken a   *)
(* received value for the end of the stream only after dockerUpdates       *)
(* returned nil and the channel was closed.                                *)
C24_NoUndefinedStatus ==
    /\ \A n \in DOMAIN steps :
          steps[n].status \in {gcbStatusRunning, gcbStatusDone, gcbStatusError,
                               gcbStatusCancelled}
    /\ \A i \in 1..Len(updates) : updates[i].status # gcbStatusUndef
    /\ updNil => (prodPc = "returned" /\ dockerErrs = "drained" /\ updClosed)

(* The end of the stream was seen with a step in the map. *)
C24_Witness == updNil /\ DOMAIN steps # {} /\ prodPc = "returned" /\ updClosed

(* C26, as claimed. When the loop calls the synthesizer the step map is    *)
(* not empty: no call panics, and no tick waits to be received, nor the    *)
(* end of the stream, while the map is empty.                              *)
C26_AsClaimed ==
    /\ result # "panic"
    /\ (Alive /\ (kickC \/ (~updNil /\ SentinelAtHead))) => DOMAIN steps # {}

(* C27. The loop never blocks for ever draining kick.C: while run loops    *)
(* the timer is armed or its tick waits in kick.C, whenever a transition   *)
(* is handled and at any other time.                                       *)
C27_DrainNeverBlocks ==
    /\ result # "stuck"
    /\ Alive => (kick # "stopped" \/ kickC)

(* A transition waits to be handled while the timer, armed by an earlier   *)
(* one, has fired and its tick is not consumed: kick.Stop will report      *)
(* false and the drain will find the tick.                                 *)
C27_Witness ==
    Alive /\ updates # <<>> /\ kick = "stopped" /\ kickC /\ Unpublished >= 1

HasError == \E n \in DOMAIN steps : steps[n].status = gcbStatusError

(* C21, as claimed. Once an Error transition was applied an entry in Error *)
(* stays in the map whatever transitions follow, and the next publish      *)
(* reports error and ends run.                                             *)
C21_AsClaimed ==
    [][/\ \A n \in DOMAIN steps :
            steps[n].status = gcbStatusError => steps'[n].status = gcbStatusError
       /\ (HasError /\ Published') =>
            (gh'.State = ghCommitStateError /\ result' # "none")]_vars

(* What holds of C21: a publish of a map that has an entry in Error        *)
(* reports error and ends run.                                             *)
C21_ErrorEntryEndsRun ==
    [][(HasError /\ Published') =>
            (gh'.State = ghCommitStateError /\ result' # "none")]_vars

(* C23. A timer-triggered publish that does not end run leaves the timer  *)
(* armed at the steady interval; and while the source stays open, no       *)
(* transition arrives and run is not ended, a steady timer leads to        *)
(* another publish, so that publishes recur until one ends run.            *)
C23_SteadyRepublish ==
    /\ [][(TickReceived /\ result' = "none") => (kick' = "steady" /\ ~kickC')]_vars
    /\ (Alive /\ kick = "steady") ~> Published
    /\ []<>(Published \/ ~Alive)

(* A publish that does not end run, with no transition applied since the   *)
(* publish before it.                                                      *)
C23_Witness ==
    Published /\ result = "none" /\ kick = "steady" /\ burst = 0 /\ ~updNil

(* The time of the transition applied last, on a stream of starts of       *)
(* step_0 sent at the times 1, 2, 3, ...: 0 when none was applied.         *)
AppliedTime == StepAt(steps, 0).startNano

BlockedSends == IF prodPc = "send" THEN 1 ELSE 0

(* C22. The transitions are applied in the order dockerUpdates sent them:  *)
(* the channel holds, in their order and each once, the transitions sent   *)
(* after the one applied last, never more than its capacity; and the       *)
(* transition sent while the channel is full is held by the blocked        *)
(* sender, which reads no further event, and is not lost.                  *)
C22_ChannelIsFifo ==
    /\ Len(updates) <= ChanCap
    /\ \A i \in 1..Len(updates) : updates[i].startNano = AppliedTime + i
    /\ nEvents = AppliedTime + Len(updates) + BlockedSends
    /\ prodPc = "send" => prodMsg.startNano = nEvents

(* The sender, blocked on the full channel, still holds its transition     *)
(* after the loop received one and made room.                              *)
C22_Witness ==
    /\ prodPc = "send"
    /\ Len(updates) = ChanCap - 1
    /\ AppliedTime >= 1
    /\ nEvents > ChanCap

(* C25, as claimed. Once ctx is cancelled dockerUpdates returns, also when *)
(* it waits for the next event of a stream that could still carry one and  *)
(* none arrives.                                                           *)
C25_AsClaimed == (ctxDone /\ nEvents < MaxEvents) ~> (prodPc = "returned")

(* What holds of C25: after the cancellation dockerUpdates returns with    *)
(* the next transition it sends, or at the end of the stream.              *)
C25_ReturnsOnNextSend ==
    [][(ctxDone /\ prodPc # prodPc') => prodPc' = "returned"]_vars

(* C28. The channel of transitions is closed only when the nil result of   *)
(* dockerUpdates was received, so after dockerUpdates returned: no         *)
(* transition is sent on the closed channel, and the result channel, set   *)
(* to nil at the close, is not received from again.                        *)
C28_CloseAfterProducer ==
    [][/\ updClosed' => (prodPc' = "returned" /\ dockerErrs' = "drained")
       /\ updClosed => /\ updClosed'
                       /\ dockerErrs' = dockerErrs
                       /\ \/ updates' = updates
                          \/ updates # <<>> /\ updates' = Tail(updates)]_vars

(* The channel was closed with transitions still in it. *)
C28_Witness == updClosed /\ updates # <<>> /\ prodPc = "returned"

====
